---- MODULE Spec2Model ----
(***************************************************************************)
(* FairScan, evaluation/python/generate_masks.py: the batch driver that    *)
(* loads the segmentation model, enumerates <dataset>/images/*.jpg in      *)
(* sorted order and writes one mask per image to <dataset>/masks/.         *)
(*                                                                         *)
(* Representation.                                                         *)
(*  - A file name is a sequence of one-character strings, so that the      *)
(*    glob pattern, the sort order and Path.stem are computed on the       *)
(*    characters, as pathlib computes them.                                *)
(*  - A raster (PIL image, numpy array, tensor) is its shape or size       *)
(*    together with its four corner samples (tl, tr, bl, br); a sample    *)
(*    is the sequence of its values along the last (channel) axis.  The    *)
(*    eight EXIF transpositions act faithfully on the corners.  The        *)
(*    images considered have flat corner regions, on which bilinear        *)
(*    resampling returns the corner colour itself.                         *)
(*  - A float32 is <<"fin", n>> for the value n / FDen, or NaN, +Inf,      *)
(*    -Inf.  Every value the pipeline computes on bytes is a multiple of   *)
(*    1 / FDen, so the arithmetic below is exact.                          *)
(***************************************************************************)
EXTENDS Integers, Sequences, FiniteSets, TLC

VARIABLES images,      \* <dataset>/images: file name -> file content
          masks,       \* <dataset>/masks: file name -> file content
          artifact,    \* the model file at SEG_MODEL_FILE_PATH
          nanCast,     \* what this build's float -> uint8 cast yields for NaN
          interpreter, \* the global tf.lite.Interpreter (NoInterp before load)
          pc,          \* the statement the script is about to execute
          listed,      \* whether sorted(glob) has been evaluated
          todo,        \* the paths the for loop has still to visit
          image_path,  \* the loop variable
          img,         \* the script's variable img
          mask,        \* the script's variable mask
          stdout,      \* the names printed, in order
          writes,      \* history: the saves completed in this run, in order
          masks0,      \* history: masks/ as this run found it
          run,         \* number of the current process run
          prev         \* history: what the previous run left

vars == <<images, masks, artifact, nanCast, interpreter, pc, listed, todo,
          image_path, img, mask, stdout, writes, masks0, run, prev>>

(***************************************************************************)
(* Bounds of the model.                                                    *)
(***************************************************************************)
MaxFiles == 3
MaxRuns == 2

(***************************************************************************)
(* Program constants.                                                      *)
(***************************************************************************)
INPUT_WIDTH == 256
INPUT_HEIGHT == 256

(***************************************************************************)
(* float32 values.                                                         *)
(***************************************************************************)
FDen == 255 * 10

Fin(n) == <<"fin", n>>
NaN == <<"nan", 0>>
PosInf == <<"inf", 1>>
NegInf == <<"inf", -1>>

IsFin(x) == x[1] = "fin"
IsNaN(x) == x[1] = "nan"

\* float(b) for a byte or an integer b
FromInt(b) == Fin(b * FDen)

\* 127.5
F127_5 == Fin((255 * FDen) \div 2)

FSub(x, y) == Fin(x[2] - y[2])

FDiv(x, y) == Fin((x[2] * FDen) \div y[2])

\* numpy.maximum(x, lo) and numpy.minimum(x, hi) for finite lo, hi: NaN propagates
FMaximum(x, lo) ==
    IF IsNaN(x) THEN NaN
    ELSE IF x = PosInf THEN PosInf
    ELSE IF x = NegInf THEN lo
    ELSE IF x[2] < lo[2] THEN lo ELSE x

FMinimum(x, hi) ==
    IF IsNaN(x) THEN NaN
    ELSE IF x = NegInf THEN NegInf
    ELSE IF x = PosInf THEN hi
    ELSE IF x[2] > hi[2] THEN hi ELSE x

\* numpy.clip(x, lo, hi) == minimum(maximum(x, lo), hi)
FClip(x, lo, hi) == FMinimum(FMaximum(x, lo), hi)

(***************************************************************************)
(* File names.                                                             *)
(***************************************************************************)
Ord(c) ==
    CASE c = "." -> 46
      [] c = "a" -> 97
      [] c = "b" -> 98
      [] c = "g" -> 103
      [] c = "j" -> 106
      [] c = "n" -> 110
      [] c = "p" -> 112
      [] c = "z" -> 122

DotJpg == <<".", "j", "p", "g">>
DotPng == <<".", "p", "n", "g">>

\* str.__lt__ on the last path component: lexicographic by code point
RECURSIVE NameLess(_, _)
NameLess(a, b) ==
    IF a = <<>> THEN b # <<>>
    ELSE IF b = <<>> THEN FALSE
    ELSE IF Ord(Head(a)) # Ord(Head(b)) THEN Ord(Head(a)) < Ord(Head(b))
    ELSE NameLess(Tail(a), Tail(b))

\* the paths in descending order: what sorted(..., reverse=True) would give
RECURSIVE SortedReverse(_)
SortedReverse(S) ==
    IF S = {} THEN <<>>
    ELSE LET m == CHOOSE x \in S : \A y \in S \ {x} : NameLess(y, x)
         IN  <<m>> \o SortedReverse(S \ {m})

\* sorted(...) of a set of paths of one directory
RECURSIVE Sorted(_)
Sorted(S) ==
    IF S = {} THEN <<>>
    ELSE LET m == CHOOSE x \in S : \A y \in S \ {x} : NameLess(x, y)
         IN  <<m>> \o Sorted(S \ {m})

\* fnmatch of the pattern "*.jpg": pathlib's glob also matches dot files
MatchesJpg(n) ==
    /\ Len(n) >= Len(DotJpg)
    /\ SubSeq(n, Len(n) - Len(DotJpg) + 1, Len(n)) = DotJpg

\* img_input_dir.glob("*.jpg")
Glob(dir) == {n \in DOMAIN dir : MatchesJpg(n)}

\* str.rfind(".") as a 0-based index, -1 when there is none
RFindDot(n) ==
    LET D == {i \in 1..Len(n) : n[i] = "."}
    IN  IF D = {} THEN -1 ELSE (CHOOSE i \in D : \A j \in D : j <= i) - 1

\* PurePath.stem: the name without its suffix; a name whose only dot leads
\* it, or ends it, has no suffix
Stem(n) ==
    LET i == RFindDot(n)
    IN  IF 0 < i /\ i < Len(n) - 1 THEN SubSeq(n, 1, i) ELSE n

\* mask_input_dir / (image_path.stem + ".png")
MaskPath(n) == Stem(n) \o DotPng

(***************************************************************************)
(* Images.  A decoded PIL image is [mode, size, exif, c]: size is          *)
(* <<width, height>>, exif is the set holding the Orientation tag of       *)
(* info["exif"] (empty when the tag is absent), c the corner pixels.       *)
(***************************************************************************)
TL == "tl"
TR == "tr"
BL == "bl"
BR == "br"
Corners == {TL, TR, BL, BR}

\* the raster whose corners are a, b (top) and c, d (bottom)
Quad(a, b, c, d) ==
    [k \in Corners |-> CASE k = TL -> a [] k = TR -> b [] k = BL -> c [] k = BR -> d]

\* Image.open(path): the decoded file
ImageOpen(file) ==
    [mode |-> file.mode, size |-> file.size, exif |-> file.exif, c |-> file.c]

\* whether Image.open(path).convert("RGB") succeeds on the file
Decodable(file) == file.kind = "image"

\* Image.convert("RGB"): info (and so the EXIF block) is copied
ConvertRGB(im) ==
    IF im.mode = "RGB" THEN im
    ELSE [im EXCEPT !.mode = "RGB",
                    !.c = [k \in Corners |-> <<im.c[k][1], im.c[k][1], im.c[k][1]>>]]

\* Image.transpose(method)
Transpose(im, method) ==
    LET c == im.c
        w == im.size[1]
        h == im.size[2]
    IN  CASE method = "FLIP_LEFT_RIGHT" ->
               [im EXCEPT !.c = Quad(c[TR], c[TL], c[BR], c[BL])]
          [] method = "ROTATE_180" ->
               [im EXCEPT !.c = Quad(c[BR], c[BL], c[TR], c[TL])]
          [] method = "FLIP_TOP_BOTTOM" ->
               [im EXCEPT !.c = Quad(c[BL], c[BR], c[TL], c[TR])]
          [] method = "TRANSPOSE" ->
               [im EXCEPT !.c = Quad(c[TL], c[BL], c[TR], c[BR]), !.size = <<h, w>>]
          [] method = "ROTATE_270" ->
               [im EXCEPT !.c = Quad(c[BL], c[TL], c[BR], c[TR]), !.size = <<h, w>>]
          [] method = "TRANSVERSE" ->
               [im EXCEPT !.c = Quad(c[BR], c[TR], c[BL], c[TL]), !.size = <<h, w>>]
          [] method = "ROTATE_90" ->
               [im EXCEPT !.c = Quad(c[TR], c[BR], c[TL], c[BL]), !.size = <<h, w>>]

\* the method ImageOps.exif_transpose looks up for an Orientation value
ExifMethod(orientation) ==
    CASE orientation = 2 -> "FLIP_LEFT_RIGHT"
      [] orientation = 3 -> "ROTATE_180"
      [] orientation = 4 -> "FLIP_TOP_BOTTOM"
      [] orientation = 5 -> "TRANSPOSE"
      [] orientation = 6 -> "ROTATE_270"
      [] orientation = 7 -> "TRANSVERSE"
      [] orientation = 8 -> "ROTATE_90"
      [] OTHER -> "none"

\* an exif_transpose that transposes and leaves the Orientation tag in place
ExifTransposeKeepTag(im) ==
    LET orientation == IF im.exif = {} THEN 1 ELSE CHOOSE o \in im.exif : TRUE
        method == ExifMethod(orientation)
    IN  IF method # "none" THEN Transpose(im, method) ELSE im

\* ImageOps.exif_transpose(img): transposes by the Orientation tag and deletes
\* the tag from the result; an image with no (or an unknown) tag is copied
ExifTranspose(im) ==
    LET orientation == IF im.exif = {} THEN 1 ELSE CHOOSE o \in im.exif : TRUE
        method == ExifMethod(orientation)
    IN  IF method # "none"
        THEN [Transpose(im, method) EXCEPT !.exif = {}]
        ELSE im

\* Image.resize(size, Image.BILINEAR): the aspect ratio is not kept
Resize(im, size) == [im EXCEPT !.size = size]

\* get_resized_image(image_path)
GetResizedImage(file) ==
    Resize(ConvertRGB(ExifTranspose(ConvertRGB(ImageOpen(file)))),
           <<INPUT_WIDTH, INPUT_HEIGHT>>)

(***************************************************************************)
(* Arrays: [shape, v], v the corner samples.                               *)
(***************************************************************************)
\* np.asarray(img).astype(np.float32)
AsFloatArray(im) ==
    [shape |-> IF im.mode = "RGB" THEN <<im.size[2], im.size[1], 3>>
               ELSE <<im.size[2], im.size[1]>>,
     v |-> [k \in Corners |-> [ch \in DOMAIN im.c[k] |-> FromInt(im.c[k][ch])]]]

\* the scaling img_np / 255 to [0, 1] in place of the one to [-1, 1]
NormalizeBy255(x) == FDiv(x, FromInt(255))

\* (img_np - 127.5) / 127.5
Normalize(x) == FDiv(FSub(x, F127_5), F127_5)

\* preprocess_image(img)
PreprocessImage(im) ==
    LET img_np == AsFloatArray(im)
    IN  [shape |-> <<1>> \o img_np.shape,
         v |-> [k \in Corners |->
                  [ch \in DOMAIN img_np.v[k] |-> Normalize(img_np.v[k][ch])]]]

NotOne(d) == d # 1

\* np.squeeze(output).astype(np.float32)
Squeeze(a) == [a EXCEPT !.shape = SelectSeq(a.shape, NotOne)]

\* postprocess_output(output)
PostprocessOutput(output) ==
    LET sq == Squeeze(output)
    IN  [sq EXCEPT !.v = [k \in Corners |->
                            [ch \in DOMAIN sq.v[k] |->
                               FClip(sq.v[k][ch], FromInt(0), FromInt(1))]]]

\* x * 255
FTimes255(x) == IF IsFin(x) THEN Fin(x[2] * 255) ELSE x

\* ndarray.astype(np.uint8) of one value: a finite value is truncated toward
\* zero and wraps modulo 256; the cast of NaN or of an infinity is undefined
\* in C and yields what the build yields
AsUint8(x) ==
    IF IsFin(x)
    THEN (IF x[2] >= 0 THEN x[2] \div FDen ELSE -((-x[2]) \div FDen)) % 256
    ELSE nanCast

\* (mask * 255).astype(np.uint8)
Quantize(m) ==
    [shape |-> m.shape,
     v |-> [k \in Corners |-> [ch \in DOMAIN m.v[k] |-> AsUint8(FTimes255(m.v[k][ch]))]]]

\* Image.fromarray(a) of a two-dimensional uint8 array, as the PNG file it is
\* saved to
PngOf(a) ==
    [kind |-> "png", mode |-> "L", size |-> <<a.shape[2], a.shape[1]>>, c |-> a.v]

(***************************************************************************)
(* The model artifact and the interpreter.  The artifact is opaque: it is  *)
(* [ok, inShape, outShape, fn], ok telling whether it loads, fn naming the *)
(* (deterministic) function the network computes.                          *)
(***************************************************************************)
NoInterp == [loaded |-> FALSE]

Channels(shape) == IF Len(shape) = 4 THEN shape[4] ELSE 1

\* a tensor buffer as allocate_tensors() leaves it
ZeroArray(shape) ==
    [shape |-> shape, v |-> [k \in Corners |-> [ch \in 1..Channels(shape) |-> FromInt(0)]]]

\* tf.lite.Interpreter(model_path); allocate_tensors(); get_input_details()[0];
\* get_output_details()[0]
LoadInterpreter(a) ==
    [loaded |-> TRUE, inShape |-> a.inShape, outShape |-> a.outShape, fn |-> a.fn,
     input |-> ZeroArray(a.inShape), output |-> ZeroArray(a.outShape)]

\* a set_tensor that checks no shape
SetTensorAcceptsAny(interp, t) == TRUE

\* interpreter.set_tensor raises ValueError on a tensor of another shape
SetTensorAccepts(interp, t) == t.shape = interp.inShape

\* a set_tensor that binds the input buffer only while it is still as allocated
SetTensorOnce(interp, t) ==
    IF interp.input = ZeroArray(interp.inShape) THEN [interp EXCEPT !.input = t]
    ELSE interp

\* interpreter.set_tensor(input_details['index'], input_tensor): the whole input
\* buffer is overwritten
SetTensor(interp, t) == [interp EXCEPT !.input = t]

\* the network's forward pass on input tensor t, at corner k
Forward(fn, t, k) ==
    LET x == t.v[k][1]
    IN  CASE fn.kind = "half"  -> Fin((x[2] + FDen) \div 2)
          [] fn.kind = "over"  -> Fin((x[2] * 13) \div 10)
          [] fn.kind = "nan"   -> IF x[2] = -FDen THEN NaN ELSE Fin((x[2] + FDen) \div 2)
          [] fn.kind = "const" -> fn.raw[k]

\* whether interpreter.invoke() raises
InvokeRaises(interp) == interp.fn.kind = "fault"

\* interpreter.invoke(): the output buffer becomes the network's value on the
\* input buffer
Invoke(interp) ==
    [interp EXCEPT !.output =
        [shape |-> interp.outShape,
         v |-> [k \in Corners |-> <<Forward(interp.fn, interp.input, k)>>]]]

\* interpreter.get_tensor(output_details['index']): a copy of the output buffer
GetTensor(interp) == interp.output

(***************************************************************************)
(* The masks/ directory.                                                   *)
(***************************************************************************)
\* a save that skips a mask that exists already
WriteFileIfAbsent(dir, path, data) ==
    IF path \in DOMAIN dir THEN dir ELSE (path :> data) @@ dir

\* a save that opens the path for appending instead of truncating it
WriteFileAppending(dir, path, data) ==
    IF path \in DOMAIN dir
    THEN (path :> [kind |-> "appended", head |-> dir[path], tail |-> data]) @@ dir
    ELSE (path :> data) @@ dir

\* builtins.open(mask_path, "w+b") followed by the complete write of data
WriteFile(dir, path, data) == (path :> data) @@ dir

\* os.remove(mask_path)
RemoveFile(dir, path) == [q \in DOMAIN dir \ {path} |-> dir[q]]

\* what a write that fails after open(mask_path, "w+b") leaves at the path
Partial == [kind |-> "partial"]

(***************************************************************************)
(* The script, statement by statement.                                     *)
(***************************************************************************)
NoImage == [mode |-> "none"]
NoMask == [shape |-> <<>>]
NoPath == <<>>

Fail == pc' = "failed"

\* lines 37-40: the module-level model load
LoadModel ==
    /\ pc = "load"
    /\ \/ /\ artifact.ok
          /\ interpreter' = LoadInterpreter(artifact)
          /\ pc' = "glob"
       \/ /\ ~artifact.ok
          /\ Fail
          /\ UNCHANGED interpreter
    /\ UNCHANGED <<images, masks, artifact, nanCast, listed, todo, image_path, img,
                   mask, stdout, writes, masks0, run, prev>>

\* line 45: sorted(img_input_dir.glob("*.jpg")) is evaluated once
ListImages ==
    /\ pc = "glob"
    /\ todo' = Sorted(Glob(images))
    /\ listed' = TRUE
    /\ pc' = "loop"
    /\ UNCHANGED <<images, masks, artifact, nanCast, interpreter, image_path, img,
                   mask, stdout, writes, masks0, run, prev>>

\* line 45: the for loop takes the next path, or ends and the process exits 0
LoopNext ==
    /\ pc = "loop"
    /\ \/ /\ todo # <<>>
          /\ image_path' = Head(todo)
          /\ todo' = Tail(todo)
          /\ pc' = "print"
       \/ /\ todo = <<>>
          /\ pc' = "done"
          /\ UNCHANGED <<image_path, todo>>
    /\ UNCHANGED <<images, masks, artifact, nanCast, interpreter, listed, img, mask,
                   stdout, writes, masks0, run, prev>>

\* line 46: print(f"Generating mask for {image_path}")
PrintPath ==
    /\ pc = "print"
    /\ stdout' = Append(stdout, image_path)
    /\ pc' = "resize"
    /\ UNCHANGED <<images, masks, artifact, nanCast, interpreter, listed, todo,
                   image_path, img, mask, writes, masks0, run, prev>>

\* line 47: img = get_resized_image(image_path)
ResizeImage ==
    /\ pc = "resize"
    /\ \/ /\ Decodable(images[image_path])
          /\ img' = GetResizedImage(images[image_path])
          /\ pc' = "exif"
       \/ /\ ~Decodable(images[image_path])
          /\ Fail
          /\ UNCHANGED img
    /\ UNCHANGED <<images, masks, artifact, nanCast, interpreter, listed, todo,
                   image_path, mask, stdout, writes, masks0, run, prev>>

\* line 48: img = ImageOps.exif_transpose(img)
TransposeAgain ==
    /\ pc = "exif"
    /\ img' = ExifTranspose(img)
    /\ pc' = "set_tensor"
    /\ UNCHANGED <<images, masks, artifact, nanCast, interpreter, listed, todo,
                   image_path, mask, stdout, writes, masks0, run, prev>>

\* lines 31-32: input_tensor = preprocess_image(img); interpreter.set_tensor(...)
BindInput ==
    /\ pc = "set_tensor"
    /\ LET input_tensor == PreprocessImage(img)
       IN  \/ /\ SetTensorAccepts(interpreter, input_tensor)
              /\ interpreter' = SetTensor(interpreter, input_tensor)
              /\ pc' = "invoke"
           \/ /\ ~SetTensorAccepts(interpreter, input_tensor)
              /\ Fail
              /\ UNCHANGED interpreter
    /\ UNCHANGED <<images, masks, artifact, nanCast, listed, todo, image_path, img,
                   mask, stdout, writes, masks0, run, prev>>

\* line 33: interpreter.invoke()
RunModel ==
    /\ pc = "invoke"
    /\ \/ /\ ~InvokeRaises(interpreter)
          /\ interpreter' = Invoke(interpreter)
          /\ pc' = "get_tensor"
       \/ /\ InvokeRaises(interpreter)
          /\ Fail
          /\ UNCHANGED interpreter
    /\ UNCHANGED <<images, masks, artifact, nanCast, listed, todo, image_path, img,
                   mask, stdout, writes, masks0, run, prev>>

\* lines 34-35 and 49: mask = postprocess_output(interpreter.get_tensor(...))
ReadOutput ==
    /\ pc = "get_tensor"
    /\ mask' = PostprocessOutput(GetTensor(interpreter))
    /\ pc' = "save"
    /\ UNCHANGED <<images, masks, artifact, nanCast, interpreter, listed, todo,
                   image_path, img, stdout, writes, masks0, run, prev>>

\* lines 50-51: Image.fromarray((mask * 255).astype(np.uint8)).save(mask_path).
\* Image.save opens the path "w+b" (the file is truncated), writes, and on an
\* error while writing removes the file if the open created it.
SaveMask ==
    /\ pc = "save"
    /\ LET mask_path == MaskPath(image_path)
           data == PngOf(Quantize(mask))
       IN  \/ /\ masks' = WriteFile(masks, mask_path, data)
              /\ writes' = Append(writes, [name |-> image_path, path |-> mask_path,
                                           data |-> data])
              /\ pc' = "loop"
           \/ \* the open fails: no masks/ directory, no permission
              /\ Fail
              /\ UNCHANGED <<masks, writes>>
           \/ \* the write fails after the open: the device is full, an I/O error
              /\ Fail
              /\ \/ masks' = WriteFile(masks, mask_path, Partial)
                 \/ /\ mask_path \notin DOMAIN masks
                    /\ masks' = RemoveFile(masks, mask_path)
              /\ UNCHANGED writes
    /\ UNCHANGED <<images, artifact, nanCast, interpreter, listed, todo, image_path,
                   img, mask, stdout, masks0, run, prev>>

\* the script is started again on the same dataset with the same model file
StartAgain ==
    /\ pc = "done"
    /\ run < MaxRuns
    /\ run' = run + 1
    /\ prev' = [stdout |-> stdout, writes |-> writes, masks |-> masks]
    /\ masks0' = masks
    /\ interpreter' = NoInterp
    /\ pc' = "load"
    /\ listed' = FALSE
    /\ todo' = <<>>
    /\ image_path' = NoPath
    /\ img' = NoImage
    /\ mask' = NoMask
    /\ stdout' = <<>>
    /\ writes' = <<>>
    /\ UNCHANGED <<images, masks, artifact, nanCast>>

Next ==
    \/ LoadModel
    \/ ListImages
    \/ LoopNext
    \/ PrintPath
    \/ ResizeImage
    \/ TransposeAgain
    \/ BindInput
    \/ RunModel
    \/ ReadOutput
    \/ SaveMask
    \/ StartAgain

\* the process's exit status: 0 at the end of the script, 1 on an uncaught
\* exception
Exited == pc \in {"done", "failed"}
ExitStatus == IF pc = "done" THEN 0 ELSE 1

(***************************************************************************)
(* The inputs: datasets, model files, masks/ directories.                  *)
(***************************************************************************)
ImageFile(mode, size, orientation, c) ==
    [kind |-> "image", mode |-> mode, size |-> size, exif |-> orientation, c |-> c]

\* a file Image.open cannot decode (or read)
Corrupt == [kind |-> "corrupt"]

ImgA ==
    ImageFile("RGB", <<640, 480>>, {6},
              Quad(<<255, 0, 0>>, <<0, 255, 0>>, <<0, 0, 255>>, <<255, 255, 255>>))

ImgB == ImageFile("L", <<256, 256>>, {}, Quad(<<0>>, <<255>>, <<128>>, <<0>>))

Name_a == <<"a">> \o DotJpg
Name_b == <<"b">> \o DotJpg
Name_dot == DotJpg
Name_dotdot == DotJpg \o DotJpg
Name_ab == <<"a", ".", "b">> \o DotJpg
Name_png == <<"a">> \o DotPng

FileNames == {Name_a, Name_b, Name_ab, Name_dot, Name_dotdot, Name_png}

\* the datasets of at most MaxFiles files; what a file that is no *.jpg holds
\* is never read
Datasets ==
    UNION {{d \in [S -> {ImgA, ImgB, Corrupt}] :
              \A n \in S : ~MatchesJpg(n) => d[n] = ImgB} :
           S \in {T \in SUBSET FileNames : Cardinality(T) <= MaxFiles}}

ModelInputShape == <<1, INPUT_HEIGHT, INPUT_WIDTH, 3>>
ModelOutputShape == <<1, INPUT_HEIGHT, INPUT_WIDTH, 1>>

Model(fn) ==
    [ok |-> TRUE, inShape |-> ModelInputShape, outShape |-> ModelOutputShape, fn |-> fn]

\* a missing or corrupt model file
BrokenModel == [Model([kind |-> "half"]) EXCEPT !.ok = FALSE]

\* a model built for another input resolution
OtherShapeModel == [Model([kind |-> "half"]) EXCEPT !.inShape = <<1, 224, 224, 3>>]

\* a model whose forward pass raises
FaultyModel == Model([kind |-> "fault"])

Artifacts ==
    {Model([kind |-> "half"]), Model([kind |-> "over"]), Model([kind |-> "nan"]),
     BrokenModel, OtherShapeModel, FaultyModel}

NanCastOutcomes == {0, 255}

\* the cast of a NaN matters only to a model that yields one
BuildsFor(a) ==
    IF a.fn.kind = "nan"
       \/ (a.fn.kind = "const" /\ \E k \in Corners : ~IsFin(a.fn.raw[k]))
    THEN NanCastOutcomes ELSE {0}

\* a mask file an earlier run left
StalePng == [kind |-> "png", mode |-> "L", size |-> <<INPUT_WIDTH, INPUT_HEIGHT>>,
             c |-> Quad(<<7>>, <<7>>, <<7>>, <<7>>)]

EmptyDir == <<>>

StaleDir ==
    [p \in {MaskPath(Name_a), MaskPath(Name_dot), <<"z">> \o DotPng} |-> StalePng]

MaskDirs == {EmptyDir, StaleDir}

InitWith(inputs, dirs) ==
    /\ \E i \in inputs : images = i[1] /\ artifact = i[2]
    /\ nanCast \in BuildsFor(artifact)
    /\ masks \in dirs
    /\ masks0 = masks
    /\ interpreter = NoInterp
    /\ pc = "load"
    /\ listed = FALSE
    /\ todo = <<>>
    /\ image_path = NoPath
    /\ img = NoImage
    /\ mask = NoMask
    /\ stdout = <<>>
    /\ writes = <<>>
    /\ run = 1
    /\ prev = [stdout |-> <<>>, writes |-> <<>>, masks |-> <<>>]

Init == InitWith(Datasets \X Artifacts, MaskDirs)

Spec == Init /\ [][Next]_vars

(***************************************************************************)
(* The image pipeline on one file, over a wide family of images.           *)
(***************************************************************************)
GrayPixels == {<<0>>, <<128>>, <<255>>}
ColourPixels == {<<255, 0, 0>>, <<0, 255, 0>>, <<0, 0, 128>>}
ImageSizes == {<<256, 256>>, <<2, 3>>, <<640, 480>>}
Orientations == {{}} \cup {{o} : o \in 0..9}

ImageFiles ==
    {ImageFile("L", s, o, c) : s \in ImageSizes, o \in Orientations,
                               c \in [Corners -> GrayPixels]}
    \cup {ImageFile("RGB", s, o, c) : s \in ImageSizes, o \in Orientations,
                                      c \in [Corners -> ColourPixels]}

One(file) == [n \in {Name_a} |-> file]

InitImage ==
    InitWith(({One(f) : f \in ImageFiles} \X {Model([kind |-> "half"])})
             \cup ({One(ImgA), One(Corrupt)} \X Artifacts),
             {EmptyDir})

SpecImage == InitImage /\ [][Next]_vars

(***************************************************************************)
(* The postprocessing on one file, over a wide family of raw outputs.      *)
(***************************************************************************)
RawValues ==
    {NegInf, Fin(-((2 * FDen) \div 10)), Fin(0), Fin(FDen \div 2), Fin(FDen),
     Fin((13 * FDen) \div 10), PosInf, NaN}

RawOutputShapes == {ModelOutputShape, <<1, INPUT_HEIGHT, INPUT_WIDTH>>,
                    <<INPUT_HEIGHT, INPUT_WIDTH>>}

RawModels ==
    {[Model([kind |-> "const", raw |-> Quad(x, y, y, x)]) EXCEPT !.outShape = s] :
        x \in RawValues, y \in RawValues, s \in RawOutputShapes}

InitPost ==
    InitWith(({One(ImgB)} \X RawModels) \cup ({One(ImgA), One(Corrupt)} \X Artifacts),
             {EmptyDir})

SpecPost == InitPost /\ [][Next]_vars

(***************************************************************************)
(* Properties.                                                             *)
(***************************************************************************)
Started == {stdout[i] : i \in DOMAIN stdout}

\* the index of the last save, in this run, to path p (0 when there is none)
LastWrite(p) ==
    LET W == {k \in DOMAIN writes : writes[k].path = p}
    IN  IF W = {} THEN 0 ELSE CHOOSE k \in W : \A j \in W : j <= k

\* the mask file the pipeline computes for an image file on a freshly loaded
\* interpreter
ExpectedMask(file) ==
    LET fresh == LoadInterpreter(artifact)
        tensor == PreprocessImage(ExifTranspose(GetResizedImage(file)))
    IN  PngOf(Quantize(PostprocessOutput(GetTensor(Invoke(SetTensor(fresh, tensor))))))

\* C1: the *.jpg files are processed one at a time in ascending lexicographic
\* order of their paths, none skipped; each file processed has its mask written
\* to masks/<stem>.png (a.jpg to a.png) before the next file is started.
C1_SortedOneAtATime ==
    /\ Started \subseteq Glob(images)
    /\ \A i, j \in DOMAIN stdout : i < j => NameLess(stdout[i], stdout[j])
    /\ \A n \in Glob(images) \ Started : \A i \in DOMAIN stdout : NameLess(stdout[i], n)
    /\ Len(writes) <= Len(stdout)
    /\ Len(stdout) <= Len(writes) + 1
    /\ \A k \in DOMAIN writes :
          /\ writes[k].name = stdout[k]
          /\ writes[k].path = Stem(stdout[k]) \o DotPng
          /\ stdout[k] = Name_a => writes[k].path = <<"a", ".", "p", "n", "g">>
    /\ pc = "done" => Started = Glob(images)

C1_Witness ==
    /\ pc = "done"
    /\ Len(writes) >= 3
    /\ Name_a \in Started

\* C2, as claimed: after a model-load failure, a shape mismatch between the
\* model's input descriptor and the (1,256,256,3) tensor included, no image has
\* been enumerated, logged, decoded or had a mask written.
C2_Original ==
    (~artifact.ok \/ artifact.inShape # <<1, 256, 256, 3>>) =>
        /\ ~listed
        /\ stdout = <<>>
        /\ img = NoImage
        /\ writes = <<>>
        /\ masks = masks0

\* C2, amended: a model file that does not load aborts the run before any image
\* is enumerated, logged, decoded or written.  A shape mismatch is raised only
\* by set_tensor on the first image, which has then been enumerated, logged and
\* decoded: at most one image is logged, the model is never invoked and no mask
\* is written.
C2_Amended ==
    /\ ~artifact.ok =>
          /\ pc \in {"load", "failed"}
          /\ ~listed
          /\ stdout = <<>>
          /\ img = NoImage
          /\ writes = <<>>
          /\ masks = masks0
    /\ (artifact.ok /\ artifact.inShape # <<1, 256, 256, 3>>) =>
          /\ pc \notin {"invoke", "get_tensor", "save"}
          /\ Len(stdout) <= 1
          /\ pc = "done" => stdout = <<>>
          /\ writes = <<>>
          /\ masks = masks0

C2_Witness ==
    /\ ~artifact.ok
    /\ pc = "failed"
    /\ Cardinality(Glob(images)) >= 2
    /\ masks # <<>>

\* C3, as claimed: when decoding, inference or the write fails for the i-th
\* file, the run ends there with a non-zero exit, no later file is processed
\* or written, no mask is written for the i-th file, and every mask written
\* for an earlier file is still as written.
C3_AbortKeepsEarlierMasks ==
    (pc = "failed" /\ listed) =>
        /\ ExitStatus # 0
        /\ image_path = stdout[Len(stdout)]
        /\ \A i \in DOMAIN todo : todo[i] \notin Started
        /\ \A k \in DOMAIN writes :
              /\ writes[k].name # image_path
              /\ \A i \in DOMAIN todo : writes[k].name # todo[i]
        /\ \A k \in DOMAIN writes :
              k = LastWrite(writes[k].path) => masks[writes[k].path] = writes[k].data

\* C3, the part that does not depend on two files sharing a mask path: the run
\* ends at the failing file, later files are neither logged nor written, and
\* the masks at the paths of the other files are as the earlier iterations
\* left them.
C3_AbortCore ==
    (pc = "failed" /\ listed) =>
        /\ ExitStatus # 0
        /\ image_path = stdout[Len(stdout)]
        /\ \A i \in DOMAIN todo : todo[i] \notin Started
        /\ \A k \in DOMAIN writes :
              /\ writes[k].name # image_path
              /\ \A i \in DOMAIN todo : writes[k].name # todo[i]
        /\ \A k \in DOMAIN writes :
              (k = LastWrite(writes[k].path) /\ writes[k].path # MaskPath(image_path))
                  => masks[writes[k].path] = writes[k].data

\* C4, as claimed: a run without a failure exits 0 with the mask of every
\* discovered file written exactly once at masks/<stem>.png, and no two
\* files write to the same mask path.
C4_OneMaskPerFile ==
    pc = "done" =>
        /\ ExitStatus = 0
        /\ \A n \in Glob(images) :
              /\ Cardinality({k \in DOMAIN writes : writes[k].name = n}) = 1
              /\ \A k \in DOMAIN writes :
                    writes[k].name = n => writes[k].path = Stem(n) \o DotPng
              /\ Stem(n) \o DotPng \in DOMAIN masks
        /\ \A k, j \in DOMAIN writes : k # j => writes[k].path # writes[j].path

\* C4, the part that holds: every discovered file is written exactly once at
\* masks/<stem>.png, and two files share a mask path only if the name of one
\* of them starts with a dot.
C4_ExceptDotFiles ==
    pc = "done" =>
        /\ ExitStatus = 0
        /\ \A n \in Glob(images) :
              /\ Cardinality({k \in DOMAIN writes : writes[k].name = n}) = 1
              /\ \A k \in DOMAIN writes :
                    writes[k].name = n => writes[k].path = Stem(n) \o DotPng
              /\ Stem(n) \o DotPng \in DOMAIN masks
        /\ \A k, j \in DOMAIN writes :
              (k # j /\ Head(writes[k].name) # "." /\ Head(writes[j].name) # ".")
                  => writes[k].path # writes[j].path

\* C5: there is no skip-if-exists: after a successful run the mask of every
\* discovered file holds what this run wrote there last, computed in this run,
\* whatever masks/ held before.
C5_Regenerated ==
    pc = "done" =>
        \A n \in Glob(images) :
            LET p == MaskPath(n)
                k == LastWrite(p)
            IN  /\ p \in DOMAIN masks
                /\ k > 0
                /\ masks[p] = writes[k].data
                /\ masks[p] = ExpectedMask(images[writes[k].name])
                /\ \E j \in DOMAIN writes : writes[j].name = n /\ writes[j].path = p

C5_Witness ==
    /\ pc = "done"
    /\ \E n \in Glob(images) :
          /\ MaskPath(n) \in DOMAIN masks0
          /\ masks0[MaskPath(n)] = StalePng
          /\ masks[MaskPath(n)] # StalePng

\* C6: with a deterministic model, a second run over the same input set
\* processes the same files in the same order and leaves every mask file with
\* exactly the content the first run wrote.
C6_SecondRunIdentical ==
    (run >= 2 /\ pc = "done") =>
        /\ stdout = prev.stdout
        /\ writes = prev.writes
        /\ masks = prev.masks

C6_Witness ==
    /\ run >= 2
    /\ pc = "done"
    /\ Len(writes) >= 2
    /\ writes[1].data # writes[2].data

\* C7, as claimed: for any raw model output postprocess_output returns a
\* (256,256) map whose values all lie in [0,1] (a value below 0 becomes 0, one
\* above 1 becomes 1, one in [0,1] is unchanged), so that the mask scaled by
\* 255 converts to 8 bits within 0..255 without wrap-around.
C7_ClippedToUnit ==
    pc = "save" =>
        LET raw == GetTensor(interpreter)
        IN  /\ mask.shape = <<256, 256>>
            /\ \A k \in Corners :
                  LET x == raw.v[k][1]
                      y == mask.v[k][1]
                  IN  /\ IsFin(y)
                      /\ 0 <= y[2] /\ y[2] <= FDen
                      /\ (IsFin(x) /\ x[2] < 0) => y[2] = 0
                      /\ (IsFin(x) /\ x[2] > FDen) => y[2] = FDen
                      /\ (IsFin(x) /\ 0 <= x[2] /\ x[2] <= FDen) => y = x
                      /\ 0 <= y[2] * 255 /\ y[2] * 255 < 256 * FDen
                      /\ Quantize(mask).v[k][1] = (y[2] * 255) \div FDen

\* C7, the part that holds: every raw value that is not NaN is clipped into
\* [0,1] (-Inf to 0, +Inf to 1) and quantized within 0..255.
C7_ClippedUnlessNaN ==
    pc = "save" =>
        LET raw == GetTensor(interpreter)
        IN  /\ mask.shape = <<256, 256>>
            /\ \A k \in Corners :
                  LET x == raw.v[k][1]
                      y == mask.v[k][1]
                  IN  ~IsNaN(x) =>
                        /\ IsFin(y)
                        /\ 0 <= y[2] /\ y[2] <= FDen
                        /\ (IsFin(x) /\ x[2] < 0) => y[2] = 0
                        /\ (IsFin(x) /\ x[2] > FDen) => y[2] = FDen
                        /\ (IsFin(x) /\ 0 <= x[2] /\ x[2] <= FDen) => y = x
                        /\ Quantize(mask).v[k][1] = (y[2] * 255) \div FDen

\* C8: for an image of any width and height, get_resized_image followed by
\* preprocess_image gives a tensor of shape (1,256,256,3) whose every value is
\* (pixel - 127.5) / 127.5 for a byte pixel, hence in [-1,1], with 0 mapped to
\* -1 and 255 to 1.
C8_TensorShapeAndRange ==
    pc = "exif" =>
        LET t == PreprocessImage(img)
        IN  /\ img = GetResizedImage(images[image_path])
            /\ t.shape = <<1, 256, 256, 3>>
            /\ \A k \in Corners :
                  /\ DOMAIN t.v[k] = 1..3
                  /\ \A ch \in 1..3 :
                        LET pixel == img.c[k][ch]
                            x == t.v[k][ch]
                        IN  /\ pixel \in 0..255
                            /\ IsFin(x)
                            /\ x[2] * 255 = (2 * pixel - 255) * FDen
                            /\ -FDen <= x[2] /\ x[2] <= FDen
                            /\ pixel = 0 => x[2] = -FDen
                            /\ pixel = 255 => x[2] = FDen

C8_Witness ==
    /\ pc = "exif"
    /\ images[image_path].mode = "L"
    /\ images[image_path].size = <<2, 3>>
    /\ images[image_path].c[TL] = <<0>>
    /\ images[image_path].c[BR] = <<255>>

\* C9: the second EXIF-orientation correction is a no-op: for every image and
\* every orientation tag, the image passed to inference after both corrections
\* is the image get_resized_image returned.
C9_SecondTransposeNoOp ==
    pc = "set_tensor" => img = GetResizedImage(images[image_path])

C9_Witness ==
    /\ pc = "set_tensor"
    /\ images[image_path].exif = {6}
    /\ images[image_path].size = <<640, 480>>
    /\ img.c # ConvertRGB(ImageOpen(images[image_path])).c
    /\ img.c[TR] = ConvertRGB(ImageOpen(images[image_path])).c[TL]

\* C10: the mask written for a file depends only on that file's content (and
\* the model): it is the mask the pipeline computes for the file on a freshly
\* loaded interpreter, whichever files were processed before it.
C10_MaskDependsOnFileOnly ==
    \A k \in DOMAIN writes : writes[k].data = ExpectedMask(images[writes[k].name])

C10_Witness ==
    /\ Len(writes) >= 3
    /\ images[writes[1].name] # images[writes[2].name]
    /\ images[writes[1].name] = images[writes[3].name]
    /\ writes[1].data # writes[2].data

====
